---- MODULE Spec2Model ----
(***************************************************************************)
(* Model of the capture-and-paginate export engine of Fahim,               *)
(* src/services/pdfExportService.ts: generatePDF with its font readiness   *)
(* gate (ensureFontsLoaded), the quality-degrading capture ladder          *)
(* (safeCaptureWithRetry / captureWithTimeout) and the pagination loop.    *)
(*                                                                         *)
(* One action is one run of the code between two suspension points (an     *)
(* await): the continuation that a timer, a worker tick or the settling of *)
(* a promise resumes, up to the next await.  The jsPDF calls (addPage,     *)
(* addImage, text, line, save, output) are total: they record what they    *)
(* are given.  html2canvas is the uncertain operation: an attempt may      *)
(* resolve with a canvas, throw, or stay pending until its timer fires.    *)
(***************************************************************************)
EXTENDS Integers, Naturals, Sequences, FiniteSets, TLC

\* ---------------------------------------------------------------- bounds
MaxSections == 2

\* html2canvas operations left running by a timeout at one time
MaxAbandoned == 1
\* sections of a container that is exported twice
MaxTwice == 1

\* ------------------------------------------------- constants of the code
pdfWidth == 210
pdfHeight == 297
margin == 10
contentWidth == pdfWidth - (2 * margin)
TextGap == 5
MapGap == 10
MarkerAdvance == 10
RuleAdvance == 10
SeparatorReserve == 30
FontRounds == 20
NumRungs == 3

\* scale of each rung of the ladder, in tenths: 2, 1, 0.7
ScaleTenths == <<20, 10, 7>>

\* ------------------------------------------------------------ the inputs
\* A block of the container is an element with a laid-out size in CSS
\* pixels, or NoElem when querySelector finds none.
NoElem == [w |-> 0, h |-> 0]

\* Laid-out sizes of the blocks.  At the content width of 190 their rasters
\* are 121, 277 and 300 units high: 277 fills a fresh page exactly
\* (margin + 277 = pageHeight - margin), 300 is higher than a page holds,
\* and a 121 text with a 121 diagram ends at 267 = pageHeight - 30.
TextElems == {[w |-> 1900, h |-> 1210], [w |-> 1900, h |-> 2770]}
MapElems == {[w |-> 1900, h |-> 1210], [w |-> 1900, h |-> 3000]}
SectionShapes == [text : TextElems \cup {NoElem}, map : MapElems \cup {NoElem}]

RECURSIVE SeqsOfLen(_, _)
SeqsOfLen(S, n) ==
  IF n = 0 THEN {<<>>}
  ELSE {Append(s, x) : s \in SeqsOfLen(S, n - 1), x \in S}

Containers == UNION {SeqsOfLen(SectionShapes, n) : n \in 0..MaxSections}

VARIABLES
  containerFound,  \* document.getElementById(elementId) finds the container
  sections,        \* element.querySelectorAll('.pdf-export-section')
  action,          \* 'download' | 'blob'
  pc,              \* the await generatePDF is suspended at
  worker,          \* "none" | "alive" | "terminated"
  terminations,    \* number of timerWorker.terminate() calls
  probeAttached,   \* the font probe div is in document.body
  fontRound,       \* i of the polling loop of ensureFontsLoaded
  gateEnd,         \* how ensureFontsLoaded returned, until line 131 resumes
  idx,             \* i of the section loop
  part,            \* "text" | "map": block being captured
  rung,            \* attempt of safeCaptureWithRetry in progress, 1..3
  err,             \* the error a failed rung raised, until it is handled
  running,         \* html2canvas operations started and not yet settled
  rasterized,      \* some html2canvas operation was started
  fontOverride,    \* sections whose text part carries the forced fontFamily
  currentY,
  pageNumber,
  pdf,             \* the jsPDF document
  reported,        \* percent values passed to onProgress, in order
  outcome,         \* how the promise of generatePDF settled
  sink,            \* the onProgress callback: "quiet" returns, "throws" throws
  firstDoc         \* the document an earlier call on the container returned

vars == <<containerFound, sections, action, pc, worker, terminations,
          probeAttached, fontRound, gateEnd, idx, part, rung, err, running,
          rasterized, fontOverride, currentY, pageNumber, pdf, reported,
          outcome, sink, firstDoc>>

\* issued: the number of stamped pages of the document when it was saved or
\* returned
NoDoc ==
  [pages |-> 0, items |-> <<>>, footers |-> <<>>, saves |-> 0, issued |-> 0]

\* the locals of a call before its first statement
FreshCall ==
  /\ pc = "Start"
  /\ worker = "none"
  /\ terminations = 0
  /\ probeAttached = FALSE
  /\ fontRound = 0
  /\ gateEnd = "none"
  /\ idx = 0
  /\ part = "text"
  /\ rung = 1
  /\ err = "none"
  /\ running = 0
  /\ rasterized = FALSE
  /\ fontOverride = {}
  /\ currentY = 0
  /\ pageNumber = 0
  /\ pdf = NoDoc
  /\ reported = <<>>
  /\ outcome = "pending"
  /\ firstDoc = NoDoc

\* one call of generatePDF with the callback of App.tsx (lines 93-95), which
\* sets a React state and returns
Init ==
  /\ containerFound \in BOOLEAN
  /\ sections \in Containers
  /\ action \in {"download", "blob"}
  /\ sink = "quiet"
  /\ FreshCall

\* ------------------------------------------------------- pure functions
N == Len(sections)

\* Math.round(n / d) for n >= 0, d > 0: halves round up
Round(n, d) == (2 * n + d) \div (2 * d)

\* line 153: Math.round((i / sections.length) * 100)
TextPercent(i, n) == Round(i * 100, n)

\* line 194: Math.round(((i + 0.5) / sections.length) * 100)
MapPercent(i, n) == Round((2 * i + 1) * 50, n)

\* html2canvas(element, {scale}): the canvas has the element's size times
\* the scale of the rung
Canvas(el, r) ==
  [width  |-> (el.w * ScaleTenths[r]) \div 10,
   height |-> (el.h * ScaleTenths[r]) \div 10]

\* lines 172, 204: (imgProps.height * contentWidth) / imgProps.width
ImgHeight(canvas) == (canvas.height * contentWidth) \div canvas.width

\* faulty variant: an exact fit breaks the page too
NeedsBreakInclusive(y, h) == y + h >= pdfHeight - margin

\* faulty variant: the break looks at the cursor alone, not at the raster's height
NeedsBreakCursorOnly(y, h) == y > pdfHeight - margin

\* lines 174, 206
NeedsBreak(y, h) == y + h > pdfHeight - margin

\* lines 175-177, 207-209, 229-231: pdf.addPage(); currentY = margin;
\* pageNumber++
AddPage(M) ==
  [M EXCEPT !.pdf.pages = @ + 1, !.currentY = margin, !.pageNumber = @ + 1]

\* lines 153, 194, 236: onProgress(status, percent)
Report(M, pct) == [M EXCEPT !.reported = Append(@, pct)]

Gap(p) == IF p = "text" THEN TextGap ELSE MapGap

\* lines 170-181 and 202-213: scale, break if needed, addImage, advance
PlaceImage(M, canvas, p) ==
  LET h  == ImgHeight(canvas)
      M1 == IF NeedsBreak(M.currentY, h) THEN AddPage(M) ELSE M
  IN [M1 EXCEPT
        !.pdf.items = Append(@, [sec |-> M.idx, part |-> p, kind |-> "raster",
                                 page |-> M1.pdf.pages, y |-> M1.currentY,
                                 h |-> h, text |-> <<>>]),
        !.currentY = @ + h + Gap(p)]

\* lines 186 and 218: the text of the inline marker
MarkerText(p, i) ==
  IF p = "text" THEN <<"Error rendering section", i + 1>>
  ELSE <<"Error rendering map">>

\* faulty variant: the catch advances the cursor and writes nothing
WriteMarkerSilent(M, p) == [M EXCEPT !.currentY = @ + MarkerAdvance]

\* lines 182-188 and 214-220: the catch of a block
WriteMarker(M, p) ==
  [M EXCEPT
     !.pdf.items = Append(@, [sec |-> M.idx, part |-> p, kind |-> "marker",
                              page |-> M.pdf.pages, y |-> M.currentY,
                              h |-> 0, text |-> MarkerText(p, M.idx)]),
     !.currentY = @ + MarkerAdvance]

\* faulty variant: a cursor exactly at the threshold still gets the rule
RoomForRuleInclusive(y) == y <= pdfHeight - SeparatorReserve

\* line 224
RoomForRule(y) == y < pdfHeight - SeparatorReserve

\* lines 223-233
Separator(M) ==
  IF M.idx < N - 1
  THEN IF RoomForRule(M.currentY)
       THEN [M EXCEPT
               !.pdf.items = Append(@, [sec |-> M.idx, part |-> "sep",
                                        kind |-> "rule", page |-> M.pdf.pages,
                                        y |-> M.currentY, h |-> 0,
                                        text |-> <<>>]),
               !.currentY = @ + RuleAdvance]
       ELSE AddPage(M)
  ELSE M

\* The section loop of lines 146-236 from one of its three points (the text
\* part, the map part, the separator) up to its next await: the yield before
\* a capture (lines 154, 195) or the yield before finalization (line 237).
RECURSIVE Continue(_, _)
Continue(M, phase) ==
  IF phase = "text"
  THEN IF sections[M.idx + 1].text # NoElem
       THEN [Report(M, TextPercent(M.idx, N)) EXCEPT
               !.pc = "YieldBlock", !.part = "text"]
       ELSE Continue(M, "map")
  ELSE IF phase = "map"
  THEN IF sections[M.idx + 1].map # NoElem
       THEN [Report(M, MapPercent(M.idx, N)) EXCEPT
               !.pc = "YieldBlock", !.part = "map"]
       ELSE Continue(M, "sep")
  ELSE LET M1 == [Separator(M) EXCEPT !.idx = @ + 1]
       IN IF M1.idx < N
          THEN Continue(M1, "text")
          ELSE [Report(M1, 100) EXCEPT !.pc = "YieldFinal"]

\* faulty variant: after the diagram the loop goes back to the text of the section
AfterBlockAgain(M, p) == Continue(M, IF p = "text" THEN "map" ELSE "text")

\* faulty variant: the loop goes from any block straight to the separator
AfterBlockSkipsMap(M, p) == Continue(M, "sep")

\* what follows the capture of a block in the loop
AfterBlock(M, p) == Continue(M, IF p = "text" THEN "map" ELSE "sep")

\* faulty variant: the loop stops one page short
StampFootersShort(doc) ==
  [doc EXCEPT !.footers =
     [k \in 1..(doc.pages - 1) |->
        [page |-> k, index |-> k, total |-> doc.pages]]]

\* lines 240-246: the footer of every page, "page i of totalPages"
StampFooters(doc) ==
  [doc EXCEPT !.footers =
     [k \in 1..doc.pages |-> [page |-> k, index |-> k, total |-> doc.pages]]]

\* the engine's view of the variables the loop changes
Machine ==
  [pdf |-> pdf, currentY |-> currentY, pageNumber |-> pageNumber,
   reported |-> reported, idx |-> idx, pc |-> pc, part |-> part]

Install(M) ==
  /\ pdf' = M.pdf
  /\ currentY' = M.currentY
  /\ pageNumber' = M.pageNumber
  /\ reported' = M.reported
  /\ idx' = M.idx
  /\ pc' = M.pc
  /\ part' = M.part

\* ---------------------------------------------------------------- actions

\* lines 110-126: the call up to the first yield. onProgress is called at
\* line 125 inside the try: when it throws, the finally of line 254
\* terminates the worker and the call rejects with what it threw
Call ==
  /\ pc = "Start"
  /\ IF ~containerFound
     THEN /\ pc' = "Done"
          /\ outcome' = "rejected_notfound"
          /\ UNCHANGED <<worker, terminations, reported>>
     ELSE IF sink = "throws"
     THEN /\ reported' = Append(reported, 2)
          /\ worker' = "terminated"
          /\ terminations' = terminations + 1
          /\ pc' = "Done"
          /\ outcome' = "rejected_sink"
     ELSE /\ worker' = "alive"
          /\ reported' = Append(reported, 2)
          /\ pc' = "YieldInit"
          /\ UNCHANGED <<outcome, terminations>>
  /\ UNCHANGED <<firstDoc, sink, containerFound, sections, action,
                 probeAttached, fontRound, gateEnd, idx, part, rung, err,
                 running, rasterized, fontOverride, currentY, pageNumber,
                 pdf>>

\* line 126 resumes, lines 22-35: the probe is appended and the gate awaits
\* document.fonts.ready
TickInit ==
  /\ pc = "YieldInit"
  /\ probeAttached' = TRUE
  /\ pc' = "FontsReady"
  /\ UNCHANGED <<firstDoc, sink, containerFound, sections, action, worker, terminations,
                 fontRound, gateEnd, idx, part, rung, err, running,
                 rasterized, fontOverride, currentY, pageNumber, pdf,
                 reported, outcome>>

\* faulty variant: no check of sections.length; an empty container is finalized
AfterGateUnchecked ==
  LET M0 == [Report(Machine, 5) EXCEPT
               !.pdf = [NoDoc EXCEPT !.pages = 1]]
      M1 == [M0 EXCEPT !.currentY = margin, !.pageNumber = 1, !.idx = 0]
  IN /\ Install(IF N = 0 THEN [Report(M1, 100) EXCEPT !.pc = "YieldFinal"]
                ELSE Continue(M1, "text"))
     /\ UNCHANGED <<outcome, worker, terminations>>

\* faulty variant: the cursor is not set to the margin for the new document
AfterGateStaleCursor ==
  LET M0 == [Report(Machine, 5) EXCEPT
               !.pdf = [NoDoc EXCEPT !.pages = 1]]
  IN IF N = 0
     THEN /\ Install([M0 EXCEPT !.pc = "Done"])
          /\ outcome' = "rejected_nocontent"
          /\ worker' = "terminated"
          /\ terminations' = terminations + 1
     ELSE /\ Install(Continue([M0 EXCEPT !.pageNumber = 1, !.idx = 0],
                              "text"))
          /\ UNCHANGED <<outcome, worker, terminations>>

\* lines 131-146 after the gate has returned: progress 5, the document, the
\* section list; zero sections throw through the finally of line 254
AfterGate ==
  LET M0 == [Report(Machine, 5) EXCEPT
               !.pdf = [NoDoc EXCEPT !.pages = 1]]
  IN IF N = 0
     THEN /\ Install([M0 EXCEPT !.pc = "Done"])
          /\ outcome' = "rejected_nocontent"
          /\ worker' = "terminated"
          /\ terminations' = terminations + 1
     ELSE /\ Install(Continue([M0 EXCEPT !.currentY = margin,
                                         !.pageNumber = 1, !.idx = 0],
                              "text"))
          /\ UNCHANGED <<outcome, worker, terminations>>

\* line 129 resumes once ensureFontsLoaded has returned
ResumeAfterGate ==
  /\ pc = "GateReturned"
  /\ gateEnd' = "none"
  /\ AfterGate
  /\ UNCHANGED <<firstDoc, sink, containerFound, sections, action, probeAttached, fontRound,
                 rung, err, running, rasterized, fontOverride>>

\* faulty variant: the probe is removed at the end of the try block, so only
\* when the fonts were found ready
GateExitInTry(end) ==
  /\ probeAttached' = (end # "ready")
  /\ fontRound' = 0
  /\ gateEnd' = end
  /\ pc' = "GateReturned"
  /\ UNCHANGED <<worker, terminations, idx, part, currentY, pageNumber, pdf,
                 reported, outcome>>

\* lines 48-56: every exit of the gate (fonts ready, rounds exhausted with the
\* warning of line 49, an error caught at line 51) runs the finally that
\* removes the probe, and returns normally; the loop counter is gone with
\* the frame
GateExit(end) ==
  /\ probeAttached' = FALSE
  /\ fontRound' = 0
  /\ gateEnd' = end
  /\ pc' = "GateReturned"
  /\ UNCHANGED <<worker, terminations, idx, part, currentY, pageNumber, pdf,
                 reported, outcome>>

\* faulty variant: a check that throws is not caught and rejects the export
CheckRoundUncaught(i, res) ==
  IF i >= FontRounds THEN GateExit("exhausted")
  ELSE IF res = "notready"
  THEN /\ pc' = "FontPoll"
       /\ fontRound' = i
       /\ UNCHANGED <<probeAttached, gateEnd, worker, terminations, idx, part,
                      currentY, pageNumber, pdf, reported, outcome>>
  ELSE IF res = "throws"
  THEN /\ pc' = "Done"
       /\ outcome' = "rejected_font"
       /\ worker' = "terminated"
       /\ terminations' = terminations + 1
       /\ probeAttached' = FALSE
       /\ fontRound' = 0
       /\ UNCHANGED <<gateEnd, idx, part, currentY, pageNumber, pdf, reported>>
  ELSE GateExit("ready")

\* lines 39-46: round i of the polling loop with the result of its check
CheckRound(i, res) ==
  IF i >= FontRounds THEN GateExit("exhausted")
  ELSE IF res = "notready"
  THEN /\ pc' = "FontPoll"
       /\ fontRound' = i
       /\ UNCHANGED <<probeAttached, gateEnd, worker, terminations, idx, part,
                      currentY, pageNumber, pdf, reported, outcome>>
  ELSE GateExit(IF res = "ready" THEN "ready" ELSE "error")

FontChecks == {"ready", "notready", "throws"}

\* line 35 settles: a rejection goes to the catch, a resolution starts the
\* polling loop
FontsReadySettles ==
  /\ pc = "FontsReady"
  /\ \/ GateExit("error")
     \/ \E res \in FontChecks : CheckRound(0, res)
  /\ UNCHANGED <<firstDoc, sink, containerFound, sections, action, rung, err, running,
                 rasterized, fontOverride>>

\* line 45: the 500 ms delay of a round elapses
FontPollTimer ==
  /\ pc = "FontPoll"
  /\ \E res \in FontChecks : CheckRound(fontRound + 1, res)
  /\ UNCHANGED <<firstDoc, sink, containerFound, sections, action, rung, err, running,
                 rasterized, fontOverride>>

\* lines 160-168 and 198-200: the options the capture of a block passes to
\* html2canvas besides the scale: the text block gets the onclone callback
\* that styles the clone, the diagram block gets the filter that leaves out
\* the elements of class ignore-export
CaptureOptions(p) == [onclone |-> p = "text", ignoreElements |-> p = "map"]

\* the element of the block being captured
Block == IF part = "text" THEN sections[idx + 1].text ELSE sections[idx + 1].map

\* lines 154-160 and 195-198 resume: the font override of a text block, then
\* the first rung of the ladder (line 83) starts html2canvas and its timer
TickBlock ==
  /\ pc = "YieldBlock"
  /\ fontOverride' = IF part = "text" THEN fontOverride \cup {idx}
                     ELSE fontOverride
  /\ rung' = 1
  /\ running' = running + 1
  /\ rasterized' = TRUE
  /\ pc' = "Capture"
  /\ UNCHANGED <<firstDoc, sink, containerFound, sections, action, worker, terminations,
                 probeAttached, fontRound, gateEnd, idx, part, err, currentY,
                 pageNumber, pdf, reported, outcome>>

\* faulty variant: the last rung is followed by one more attempt
RungFailsOnceMore(cause) ==
  /\ err' = cause
  /\ pc' = IF rung <= NumRungs THEN "Settle" ELSE "Rejected"
  /\ UNCHANGED <<idx, part, currentY, pageNumber, pdf, reported>>

\* faulty variant: the rejection of the last rung is a new generic error
RungFailsGeneric(cause) ==
  /\ err' = IF rung < NumRungs THEN cause ELSE "render"
  /\ pc' = IF rung < NumRungs THEN "Settle" ELSE "Rejected"
  /\ UNCHANGED <<idx, part, currentY, pageNumber, pdf, reported>>

\* a rung fails with an error: lines 84-86 and 92-94 catch it and go on to
\* the settle delay of the next rung; the error of the last rung (line 98)
\* rejects safeCaptureWithRetry
RungFails(cause) ==
  /\ err' = cause
  /\ pc' = IF rung < NumRungs THEN "Settle" ELSE "Rejected"
  /\ UNCHANGED <<idx, part, currentY, pageNumber, pdf, reported>>

\* html2canvas of the current rung resolves before its timer:
\* safeCaptureWithRetry returns (its attempt counter is gone with the frame),
\* the raster is placed and the loop goes on to its next await
RenderResolves ==
  /\ pc = "Capture"
  /\ running' = running - 1
  /\ rung' = 1
  /\ Install(AfterBlock(PlaceImage(Machine, Canvas(Block, rung), part), part))
  /\ UNCHANGED <<firstDoc, sink, containerFound, sections, action, worker, terminations,
                 probeAttached, fontRound, gateEnd, err, rasterized,
                 fontOverride, outcome>>

\* what html2canvas throws: the element is detached or has no area, or the
\* rendering itself fails
ThrowCauses == {"detached", "render"}

\* html2canvas of the current rung throws
RenderThrows ==
  /\ pc = "Capture"
  /\ running' = running - 1
  /\ \E cause \in ThrowCauses : RungFails(cause)
  /\ UNCHANGED <<firstDoc, sink, containerFound, sections, action, worker, terminations,
                 probeAttached, fontRound, gateEnd, rung, rasterized,
                 fontOverride, outcome>>

\* faulty variant: the rejection of the ladder ends the export after the
\* marker
CaughtAborts == [WriteMarker(Machine, part) EXCEPT !.pc = "Done"]

\* lines 182-188, 214-220 and the rest of the loop up to its next await
Caught == AfterBlock(WriteMarker(Machine, part), part)

\* the rejection of safeCaptureWithRetry reaches the catch of the block
CatchBlock ==
  /\ pc = "Rejected"
  /\ err' = "none"
  /\ rung' = 1
  /\ Install(Caught)
  /\ UNCHANGED <<firstDoc, sink, containerFound, sections, action, worker, terminations,
                 probeAttached, fontRound, gateEnd, running, rasterized,
                 fontOverride, outcome>>

\* html2canvas operations whose rung timed out and that have not settled
Abandoned == running - (IF pc = "Capture" THEN 1 ELSE 0)

\* line 63: the timer of the current rung fires first; html2canvas is left
\* running
RenderTimeout ==
  /\ pc = "Capture"
  /\ Abandoned < MaxAbandoned
  /\ RungFails("timeout")
  /\ UNCHANGED <<firstDoc, sink, containerFound, sections, action, worker, terminations,
                 probeAttached, fontRound, gateEnd, rung, running, rasterized,
                 fontOverride, outcome>>

\* lines 89-91, 97-98: the settle delay elapses and the next rung starts
SettleTimer ==
  /\ pc = "Settle"
  /\ rung' = rung + 1
  /\ running' = running + 1
  /\ pc' = "Capture"
  /\ err' = "none"
  /\ UNCHANGED <<firstDoc, sink, containerFound, sections, action, worker, terminations,
                 probeAttached, fontRound, gateEnd, idx, part, rasterized,
                 fontOverride, currentY, pageNumber, pdf, reported, outcome>>

\* faulty variant: the canvas of the late operation is added to the document
AbandonedSettlesPlaces ==
  /\ Abandoned > 0
  /\ running' = running - 1
  /\ pdf' = [pdf EXCEPT !.items =
               Append(@, [sec |-> idx, part |-> part, kind |-> "raster",
                          page |-> pdf.pages, y |-> currentY, h |-> 0,
                          text |-> <<>>])]
  /\ UNCHANGED <<firstDoc, sink, containerFound, sections, action, pc, worker,
                 terminations, probeAttached, fontRound, gateEnd, idx, part,
                 rung, err, rasterized, fontOverride, currentY, pageNumber,
                 reported, outcome>>

\* an html2canvas operation whose rung already timed out settles: the race
\* of line 74 is over, nothing observes it
AbandonedSettles ==
  /\ Abandoned > 0
  /\ running' = running - 1
  /\ UNCHANGED <<firstDoc, sink, containerFound, sections, action, pc, worker, terminations,
                 probeAttached, fontRound, gateEnd, idx, part, rung, err,
                 rasterized, fontOverride, currentY, pageNumber, pdf,
                 reported, outcome>>

\* faulty variant: the document is saved in both modes
DispatchAlwaysSaves(doc, act) ==
  [doc EXCEPT !.saves = @ + 1, !.issued = Len(doc.footers)]

\* lines 248-252: pdf.save(filename), or pdf.output('blob') returned
Dispatch(doc, act) ==
  IF act = "download"
  THEN [doc EXCEPT !.saves = @ + 1, !.issued = Len(doc.footers)]
  ELSE [doc EXCEPT !.issued = Len(doc.footers)]

Resolution(act) == IF act = "download" THEN "resolved_void" ELSE "resolved_blob"

\* faulty variant: the worker is terminated after pdf.save, not in a finally,
\* so the return of the blob leaves it alive
TickFinalNoFinally ==
  /\ pc = "YieldFinal"
  /\ pdf' = Dispatch(StampFooters(pdf), action)
  /\ outcome' = Resolution(action)
  /\ worker' = IF action = "download" THEN "terminated" ELSE worker
  /\ terminations' = IF action = "download" THEN terminations + 1
                     ELSE terminations
  /\ pc' = "Done"
  /\ UNCHANGED <<firstDoc, sink, containerFound, sections, action,
                 probeAttached, fontRound, gateEnd, idx, part, rung, err,
                 running, rasterized, fontOverride, currentY, pageNumber,
                 reported>>

\* line 237 resumes: footers, dispatch, and the finally of line 254
TickFinal ==
  /\ pc = "YieldFinal"
  /\ pdf' = Dispatch(StampFooters(pdf), action)
  /\ outcome' = Resolution(action)
  /\ worker' = "terminated"
  /\ terminations' = terminations + 1
  /\ pc' = "Done"
  /\ UNCHANGED <<firstDoc, sink, containerFound, sections, action, probeAttached, fontRound,
                 gateEnd, idx, part, rung, err, running, rasterized,
                 fontOverride, currentY, pageNumber, reported>>

\* lines 103-126 once more: the caller invokes generatePDF again on the same
\* container after a call has returned its blob. The new call has its own
\* worker and its own locals; the container with the styles the earlier
\* call left on it, and the html2canvas operations that call abandoned,
\* are what it finds. The document and the cursor of the earlier call are
\* replaced when the new call reaches lines 133-146.
CallAgain ==
  /\ pc = "Done"
  /\ outcome = "resolved_blob"
  /\ firstDoc = NoDoc
  /\ firstDoc' = pdf
  /\ worker' = "alive"
  /\ terminations' = 0
  /\ reported' = <<2>>
  /\ outcome' = "pending"
  /\ rasterized' = FALSE
  /\ pc' = "YieldInit"
  /\ UNCHANGED <<sink, containerFound, sections, action, probeAttached,
                 fontRound, gateEnd, idx, part, rung, err, running,
                 fontOverride, currentY, pageNumber, pdf>>

Next ==
  \/ Call
  \/ TickInit
  \/ FontsReadySettles
  \/ FontPollTimer
  \/ ResumeAfterGate
  \/ TickBlock
  \/ RenderResolves
  \/ RenderThrows
  \/ RenderTimeout
  \/ CatchBlock
  \/ SettleTimer
  \/ AbandonedSettles
  \/ TickFinal

Spec == Init /\ [][Next]_vars

\* Timers and worker ticks fire: every continuation that waits for a
\* setTimeout or for the timer worker's message is eventually resumed, and
\* so is the continuation of an await whose promise has settled.
\* Nothing makes document.fonts.ready or an html2canvas call settle.
TimersFire ==
  /\ WF_vars(Call)
  /\ WF_vars(TickInit)
  /\ WF_vars(FontPollTimer)
  /\ WF_vars(ResumeAfterGate)
  /\ WF_vars(CatchBlock)
  /\ WF_vars(TickBlock)
  /\ WF_vars(RenderTimeout)
  /\ WF_vars(SettleTimer)
  /\ WF_vars(TickFinal)

LiveSpec == Spec /\ TimersFire

\* a call with a callback that may be one that throws
InitSink ==
  /\ containerFound \in BOOLEAN
  /\ sections \in Containers
  /\ action \in {"download", "blob"}
  /\ sink \in {"quiet", "throws"}
  /\ FreshCall

SinkSpec == InitSink /\ [][Next]_vars

\* two calls in a row with action blob on a container that is found
ContainersTwice == UNION {SeqsOfLen(SectionShapes, n) : n \in 1..MaxTwice}

InitTwice ==
  /\ containerFound = TRUE
  /\ sections \in ContainersTwice
  /\ action = "blob"
  /\ sink = "quiet"
  /\ FreshCall

NextTwice == Next \/ CallAgain

TwiceSpec == InitTwice /\ [][NextTwice]_vars

\* a call on a container of three sections
InitThree ==
  /\ containerFound = TRUE
  /\ sections \in SeqsOfLen(SectionShapes, 3)
  /\ action \in {"download", "blob"}
  /\ sink = "quiet"
  /\ FreshCall

ThreeSpec == InitThree /\ [][Next]_vars

TypeOK ==
  /\ pc \in {"Start", "YieldInit", "FontsReady", "FontPoll", "GateReturned",
             "YieldBlock", "Capture", "Settle", "Rejected", "YieldFinal",
             "Done"}
  /\ sink \in {"quiet", "throws"}
  /\ gateEnd \in {"none", "ready", "exhausted", "error"}
  /\ err \in {"none", "timeout"} \cup ThrowCauses
  /\ running \in Nat
  /\ idx \in 0..N

\* ----------------------------------------------------------------- claims
Items == pdf.items
Rejected == {"rejected_notfound", "rejected_nocontent"}
Resolved == {"resolved_void", "resolved_blob"}
HasMarker == \E k \in 1..Len(Items) : Items[k].kind = "marker"
Present(s, p) ==
  IF p = "text" THEN sections[s + 1].text # NoElem
  ELSE sections[s + 1].map # NoElem
ItemsOf(s, p) ==
  {k \in 1..Len(Items) :
     Items[k].sec = s /\ Items[k].part = p
     /\ Items[k].kind \in {"raster", "marker"}}
FootersDone == Len(pdf.footers) = pdf.pages /\ pdf.pages >= 1

\* C1: once a block has failed on every rung (its marker is in the
\* document) the export is never rejected, and when the run has ended it has
\* resolved through finalization with an item for every present block of
\* every section, the later ones included.
C1_FailureContained ==
  HasMarker =>
    /\ outcome \notin Rejected
    /\ pc = "Done" =>
         /\ outcome \in Resolved
         /\ FootersDone
         /\ \A s \in 0..(N - 1) : \A p \in {"text", "map"} :
              Present(s, p) => ItemsOf(s, p) # {}

\* a finished export whose first section's text failed on every rung while a
\* later block of the same section and a block of the next section were
\* placed as rasters
C1_Witness ==
  /\ pc = "Done"
  /\ N = 2
  /\ \E k \in 1..Len(Items) :
       Items[k].kind = "marker" /\ Items[k].sec = 0 /\ Items[k].part = "text"
  /\ \E k \in 1..Len(Items) :
       Items[k].kind = "raster" /\ Items[k].sec = 0 /\ Items[k].part = "map"
  /\ \E k \in 1..Len(Items) : Items[k].kind = "raster" /\ Items[k].sec = 1

PartRank(p) == IF p = "text" THEN 0 ELSE 1
Content == {k \in 1..Len(Items) : Items[k].kind \in {"raster", "marker"}}

\* C2: the rasters and markers are written in section order, the text item
\* of a section before its diagram item; no item of a later section comes
\* before an item of an earlier one.
C2_SectionOrder ==
  \A a \in Content : \A b \in Content :
    a < b =>
      \/ Items[a].sec < Items[b].sec
      \/ /\ Items[a].sec = Items[b].sec
         /\ PartRank(Items[a].part) < PartRank(Items[b].part)

\* a finished two-section export with four content items, one of them a
\* marker
C2_Witness ==
  /\ pc = "Done"
  /\ Cardinality(Content) = 4
  /\ HasMarker
  /\ \E k \in Content : Items[k].kind = "raster"

\* the blocks the loop has finished with
Passed(s, p) ==
  \/ s < idx
  \/ /\ s = idx
     /\ \/ pc \in {"YieldFinal", "Done"}
        \/ p = "text" /\ part = "map"

AppendsOne(kind) ==
  /\ Len(pdf'.items) > Len(Items)
  /\ pdf'.items[Len(Items) + 1].kind = kind
  /\ pdf'.items[Len(Items) + 1].sec = idx
  /\ pdf'.items[Len(Items) + 1].part = part
  /\ \A k \in (Len(Items) + 2)..Len(pdf'.items) : pdf'.items[k].kind = "rule"

C3_Items ==
  \A s \in 0..(N - 1) : \A p \in {"text", "map"} :
    /\ ~Present(s, p) => ItemsOf(s, p) = {}
    /\ Cardinality(ItemsOf(s, p)) <= 1
    /\ (Present(s, p) /\ pdf.pages >= 1 /\ Passed(s, p)) =>
         Cardinality(ItemsOf(s, p)) = 1

C3_Kinds ==
  /\ RenderResolves => AppendsOne("raster")
  /\ CatchBlock => AppendsOne("marker")
  /\ (RenderThrows \/ RenderTimeout) => pdf'.items = Items

C4_CursorBound ==
  \A k \in 1..Len(Items) : Items[k].y <= 287

\* the step of a capture that places a raster
PlacesRaster ==
  /\ pc = "Capture"
  /\ Len(pdf'.items) > Len(Items)
  /\ pdf'.items[Len(Items) + 1].kind = "raster"

C5_Rule ==
  PlacesRaster =>
    LET it    == pdf'.items[Len(Items) + 1]
        broke == it.page = pdf.pages + 1
        rules == Len(pdf'.items) - Len(Items) - 1
    IN /\ it.page \in {pdf.pages, pdf.pages + 1}
       /\ broke <=> (currentY + it.h > 287)
       /\ it.y = (IF broke THEN 10 ELSE currentY)
       /\ pdf'.pages = it.page =>
            currentY' = it.y + it.h + (IF part = "text" THEN 5 ELSE 10)
                          + 10 * rules

\* C5: a raster of either kind is preceded by a page break exactly when
\* currentY + scaledHeight > 287 (an exact fit breaks no page); it is placed
\* at the cursor, which then advances by the height plus 5 (text) or 10
\* (diagram), and by 10 more for each separator rule drawn in the same run.
C5_PlacementRule == [][C5_Rule]_vars

\* a text raster that fits the first page exactly and stays on it, and a
\* raster that took a page break
C5_Witness ==
  /\ \E k \in 1..Len(Items) :
       /\ Items[k].kind = "raster" /\ Items[k].part = "text"
       /\ Items[k].page = 1 /\ Items[k].y = 10 /\ Items[k].h = 277
  /\ \E k \in 1..Len(Items) :
       /\ Items[k].kind = "raster" /\ Items[k].page > 1 /\ Items[k].y = 10

\* C6: a raster higher than pageHeight - 2 x margin = 277 is one item,
\* placed at the margin of a page that holds no earlier item, and no other
\* raster shares its page.
C6_PageBreakLaw ==
  \A k \in 1..Len(Items) :
    (Items[k].kind = "raster" /\ Items[k].h > 277) =>
      /\ Items[k].y = 10
      /\ \A j \in 1..(k - 1) : Items[j].page # Items[k].page
      /\ \A j \in 1..Len(Items) :
           (j # k /\ Items[j].kind = "raster") => Items[j].page # Items[k].page
      /\ Cardinality(ItemsOf(Items[k].sec, Items[k].part)) = 1

\* an oversized raster written after a marker of the same section, followed
\* by a raster of the next section
C6_Witness ==
  \E k \in 2..Len(Items) :
    /\ Items[k].kind = "raster" /\ Items[k].h > 277
    /\ Items[k - 1].kind = "marker"
    /\ \E j \in (k + 1)..Len(Items) : Items[j].kind = "raster"

\* C7: footers exist only in a run that went through every section; then
\* every page 1..N has exactly one, carrying its own index and the total N,
\* the final page count, which is also the engine's page counter and bounds
\* the page of every item.
C7_Footers ==
  /\ pdf.footers # <<>> => (pc = "Done" /\ idx = N /\ outcome \in Resolved)
  /\ outcome \in Resolved =>
       /\ Len(pdf.footers) = pdf.pages
       /\ pdf.pages = pageNumber
       /\ \A k \in 1..pdf.pages :
            /\ Cardinality({j \in 1..Len(pdf.footers) :
                              pdf.footers[j].page = k}) = 1
            /\ pdf.footers[k].page = k
            /\ pdf.footers[k].index = k
            /\ pdf.footers[k].total = pdf.pages
       /\ \A k \in 1..Len(Items) : Items[k].page \in 1..pdf.pages

\* a finished document of at least three pages with its footers
C7_Witness ==
  /\ outcome \in Resolved
  /\ pdf.pages >= 3
  /\ Len(pdf.footers) = pdf.pages
  /\ pdf.footers[3].total = pdf.pages

\* C8: the percent values passed to onProgress never decrease.
C8_ProgressMonotone ==
  \A k \in 1..(Len(reported) - 1) : reported[k] <= reported[k + 1]

\* C10: a rejected run is a pre-flight failure (no container, or no
\* section) and has started no rasterization and saved nothing; a run that
\* ended with a container and at least one section has resolved, a run that
\* ended without has rejected.
C10_PreflightOnly ==
  /\ outcome \in Rejected =>
       /\ ~containerFound \/ N = 0
       /\ ~rasterized
       /\ running = 0
       /\ pdf.saves = 0
       /\ pdf.items = <<>>
  /\ pc = "Done" =>
       /\ (containerFound /\ N >= 1) => outcome \in Resolved
       /\ ~(containerFound /\ N >= 1) => outcome \in Rejected
  /\ outcome = "rejected_notfound" <=> (pc = "Done" /\ ~containerFound)
  /\ outcome = "rejected_nocontent" <=> (pc = "Done" /\ containerFound /\ N = 0)

\* the rejection of a run over a container without sections, after the gate
C10_Witness ==
  /\ outcome = "rejected_nocontent"
  /\ reported = <<2, 5>>
  /\ worker = "terminated"

InGate == pc \in {"FontsReady", "FontPoll"}

C11_Step ==
  /\ InGate => pc' \in {"FontsReady", "FontPoll", "GateReturned"}
  /\ pc = "GateReturned" =>
       /\ Len(reported') > Len(reported)
       /\ reported'[Len(reported) + 1] = 5
       /\ N >= 1 => /\ pc' \in {"YieldBlock", "YieldFinal"}
                    /\ outcome' = "pending"
                    /\ worker' = "alive"

\* C11: no ending of the font gate aborts the export. While the gate runs
\* and when it has returned the call is pending with its worker alive;
\* every step out of the gate is a normal return, whether the fonts were
\* ready, the rounds were exhausted or an error was caught; and the step
\* after the return reports 5 and, with at least one section, goes on to
\* the section loop.
C11_FontFailureTolerated ==
  /\ []((InGate \/ pc = "GateReturned") =>
          (outcome = "pending" /\ worker = "alive"))
  /\ []((gateEnd # "none") <=> (pc = "GateReturned"))
  /\ [][C11_Step]_vars

\* the gate has returned normally after twenty rounds without the fonts,
\* over a container with sections
C11_Witness ==
  /\ pc = "GateReturned"
  /\ gateEnd = "exhausted"
  /\ N >= 1
  /\ outcome = "pending"

\* C12: the probe element is in the document exactly while the gate runs:
\* it is attached in every state of the gate and in no state before the
\* gate or after the gate has returned, however it returned.
C12_ProbeRemoved == probeAttached <=> InGate

\* the gate has returned through its catch and the probe is gone
C12_Witness ==
  /\ pc = "GateReturned"
  /\ gateEnd = "error"
  /\ ~probeAttached

\* C13: the gate makes at most twenty rounds and, once entered, always
\* returns, assuming only that timers fire.
C13_GateBounded ==
  /\ [](fontRound < FontRounds)
  /\ InGate ~> (pc = "GateReturned")

InLadder == pc \in {"Capture", "Settle", "Rejected"}

C14_Step ==
  /\ running' > running =>
       \/ pc = "YieldBlock" /\ rung' = 1
       \/ /\ pc = "Settle"
          /\ rung' = rung + 1
          /\ ScaleTenths[rung'] < ScaleTenths[rung]
  /\ (pc' = "Capture" /\ pc # "Capture") =>
       (pc \in {"YieldBlock", "Settle"} /\ running' = running + 1)
  /\ (pc' = "Settle" /\ pc # "Settle") =>
       /\ pc = "Capture"
       /\ rung < NumRungs
       /\ err' \in {"timeout"} \cup ThrowCauses
       /\ pdf' = pdf
  /\ PlacesRaster =>
       /\ pc' \notin {"Capture", "Settle"}
       /\ running' = running - 1
       /\ pdf'.items[Len(Items) + 1].h = ImgHeight(Canvas(Block, rung))

\* C14: the ladder of a block. Its scales are 2, 1, 0.7 in this order; an
\* attempt starts either as rung 1 when the block's capture begins or as
\* the next lower rung when a settle delay has elapsed; a settle delay
\* is entered only from a failed rung that is not the last and changes
\* nothing in the document; the step that places a raster starts no
\* attempt and places the canvas of the rung that resolved; no block sees
\* more than three rungs.
C14_LadderProtocol ==
  /\ [](ScaleTenths = <<20, 10, 7>> /\ rung \in 1..NumRungs)
  /\ []((pc = "Capture") => running >= 1)
  /\ [][C14_Step]_vars

\* the third attempt of a block is running after two failed rungs
C14_Witness ==
  /\ pc = "Capture"
  /\ rung = NumRungs
  /\ pdf.items = <<>>

C15_Step ==
  /\ (pc' = "Rejected" /\ pc # "Rejected") =>
       /\ pc = "Capture" /\ rung = NumRungs
       /\ (err' = "timeout") <=> (running' = running)
       /\ (err' \in ThrowCauses) <=> (running' = running - 1)
       /\ pdf' = pdf
       /\ currentY' = currentY
  /\ (pc = "Capture" /\ rung < NumRungs /\ pc' # "Capture") =>
       \/ PlacesRaster
       \/ pc' = "Settle" /\ pdf' = pdf /\ outcome' = outcome
  /\ (pc = "Rejected" /\ pc' # "Rejected") => AppendsOne("marker")

\* C15: the ladder rejects only from its last rung, with the error of that
\* rung (the timeout error when its timer won the race, the thrown error
\* when html2canvas threw), and adds nothing to the document itself: the
\* marker is written by the step of the caller that catches the rejection.
\* A failure of an earlier rung only leads to the settle delay.
C15_LastCausePropagates ==
  /\ []((pc = "Rejected") => (rung = NumRungs /\ err # "none"))
  /\ []((err # "none") => pc \in {"Settle", "Rejected"})
  /\ [][C15_Step]_vars

\* the ladder has rejected with the timeout of its last rung
C15_Witness ==
  /\ pc = "Rejected"
  /\ err = "timeout"
  /\ rung = NumRungs

\* C16: when the first attempt of a block throws because the element is
\* detached or has no area, no settle delay and no further rung follow.
C16_FailFast == ~(pc = "Settle" /\ rung = 1 /\ err = "detached")

\* C17: the inline font-family forced on a text block is in place only
\* while that block is being captured.
C17_OverrideReverted ==
  \A s \in fontOverride : s = idx /\ part = "text" /\ InLadder

\* the states of the export in the order of the state machine
StageRank(st) ==
  CASE st = "Start" -> 0
    [] st = "YieldInit" -> 1
    [] st \in {"FontsReady", "FontPoll"} -> 2
    [] st = "GateReturned" -> 3
    [] st \in {"YieldBlock", "Capture", "Settle", "Rejected"} -> 4
    [] st = "YieldFinal" -> 5
    [] st = "Done" -> 6

EmptySection(s) == ~Present(s, "text") /\ ~Present(s, "map")

\* the present blocks that come before the block at the loop's position
BlocksBefore ==
  {b \in (0..(N - 1)) \X {"text", "map"} :
     /\ Present(b[1], b[2])
     /\ \/ b[1] < idx
        \/ b[1] = idx /\ b[2] = "text" /\ part = "map"}

C18_Step ==
  /\ StageRank(pc') >= StageRank(pc)
  /\ idx' >= idx
  /\ (StageRank(pc) = 4 /\ StageRank(pc') = 4 /\ idx' = idx) =>
       PartRank(part') >= PartRank(part)
  /\ (StageRank(pc) = 4 /\ idx' > idx) =>
       /\ pc \in {"Capture", "Rejected"}
       /\ part = "text" => ~Present(idx, "map")
       /\ \A s \in (idx + 1)..(idx' - 1) : EmptySection(s)
  /\ pc' = "YieldBlock" => Present(idx', part')
  /\ (pc = "YieldBlock" /\ pc' = "Capture") =>
       /\ idx' = idx /\ part' = part
       /\ \A b \in BlocksBefore : Cardinality(ItemsOf(b[1], b[2])) = 1
       /\ Cardinality(Content) = Cardinality(BlocksBefore)
  /\ (pc' = "YieldFinal" /\ pc # "YieldFinal") =>
       /\ StageRank(pc) \in {3, 4}
       /\ idx' = N
       /\ reported'[Len(reported')] = 100
  /\ pc = "YieldFinal" => pc' \in {"YieldFinal", "Done"}

\* C18: the export never goes back. Its stage (start, gate, section loop,
\* finalization, done) and its section index never decrease, inside a
\* section the diagram comes after the text, a section is left only from
\* its last present block and only sections without blocks are passed
\* over; the capture of a block starts when every present block before
\* it has its one item and nothing else has one; finalization is entered
\* once, with the index past the last section, and left only for the end.
C18_NoBranchBack ==
  /\ [](Cardinality({k \in 1..Len(reported) : reported[k] = 100}) <= 1)
  /\ []((pc = "YieldFinal") => (idx = N /\ reported[Len(reported)] = 100))
  /\ [][C18_Step]_vars

\* finalization entered after both blocks of two sections were handled
C18_Witness ==
  /\ pc = "YieldFinal"
  /\ N = 2
  /\ Cardinality(Content) = 4

\* a step that ends a block: it appends the block's raster or marker
EndsBlock == pc \in {"Capture", "Rejected"} /\ Len(pdf'.items) > Len(Items)
NewItem == pdf'.items[Len(Items) + 1]
\* the cursor when the block's item has been written
CursorAfter ==
  NewItem.y + (IF NewItem.kind = "raster" THEN NewItem.h + Gap(part)
               ELSE MarkerAdvance)
\* the sections other than the last that the step finishes
SeparatorsRun == (IF idx' >= N THEN N - 1 ELSE idx') - idx
RulesDrawn == Len(pdf'.items) - Len(Items) - 1
PagesAdded == pdf'.pages - NewItem.page
RuleThreshold == pdfHeight - SeparatorReserve

C19_Step ==
  /\ EndsBlock =>
       /\ \A k \in (Len(Items) + 2)..Len(pdf'.items) :
            pdf'.items[k].kind = "rule"
       /\ RulesDrawn + PagesAdded = SeparatorsRun
       /\ SeparatorsRun = 0 => currentY' = CursorAfter
       /\ SeparatorsRun = 1 =>
            IF CursorAfter < RuleThreshold
            THEN /\ RulesDrawn = 1 /\ PagesAdded = 0
                 /\ pdf'.items[Len(Items) + 2].y = CursorAfter
                 /\ pdf'.items[Len(Items) + 2].page = NewItem.page
                 /\ currentY' = CursorAfter + 10
            ELSE /\ RulesDrawn = 0 /\ PagesAdded = 1
                 /\ currentY' = margin
  /\ (pc = "GateReturned" /\ N >= 1) =>
       /\ \A k \in 1..Len(pdf'.items) : pdf'.items[k].kind = "rule"
       /\ Len(pdf'.items) + (pdf'.pages - 1) = SeparatorsRun

\* C19: the separator. The threshold is 267. A step that ends a block
\* runs one separator decision for every section other than the last
\* that it finishes, and each decision either draws one rule or adds one
\* page, never both and never neither; when it finishes exactly one such
\* section the rule is drawn at the cursor, which advances by 10, if the
\* cursor is below 267, and otherwise a page is added and the cursor is
\* at the margin with no rule; when it finishes no such section (the
\* text of a section with a diagram, or the last section) the cursor
\* stays where the block left it. Every rule is above 267 and belongs to
\* a section that is not the last.
C19_SeparatorRule ==
  /\ [](RuleThreshold = 267)
  /\ [](\A k \in 1..Len(Items) :
          Items[k].kind = "rule" =>
            (Items[k].y < RuleThreshold /\ Items[k].sec < N - 1))
  /\ [][C19_Step]_vars

\* the first of two sections ended with the cursor exactly at 267: no rule
\* was drawn and the second section starts on a new page
C19_Witness ==
  /\ N = 2 /\ idx = 1
  /\ Len(Items) = 2
  /\ Items[2].kind = "raster"
  /\ Items[2].y + Items[2].h + MapGap = RuleThreshold
  /\ pdf.pages = 2
  /\ currentY = margin

\* C20: a section with neither a text nor a diagram block leaves nothing in
\* the document: no item of the document belongs to such a section.
C20_EmptySectionSilent ==
  \A k \in 1..Len(Items) : ~EmptySection(Items[k].sec)

\* C21: every capture attempt, of a text block as of a diagram block, is
\* made with the filter that leaves out the elements of class
\* ignore-export.
C21_ExclusionApplied ==
  (pc = "Capture") => CaptureOptions(part).ignoreElements

C22_Step ==
  (pdf'.saves # pdf.saves \/ pdf'.issued # pdf.issued
     \/ (outcome' \in Resolved /\ outcome \notin Resolved)) =>
    /\ pc = "YieldFinal" /\ pc' = "Done"
    /\ outcome = "pending" /\ outcome' \in Resolved
    /\ pdf'.items = pdf.items
    /\ pdf'.pages = pdf.pages

\* C22: dispatch is the last step and has one effect. A resolved export
\* has ended; with action download it has saved the document exactly once
\* and resolved with no payload, with action blob it has saved nothing and
\* resolved with the blob; the document handed out has a footer on every
\* page; nothing is saved or handed out before, and the step that does it
\* changes neither the items nor the page count.
C22_Dispatch ==
  /\ [](outcome \in Resolved =>
          /\ pc = "Done"
          /\ pdf.issued = pdf.pages /\ FootersDone
          /\ action = "download" =>
               (outcome = "resolved_void" /\ pdf.saves = 1)
          /\ action = "blob" =>
               (outcome = "resolved_blob" /\ pdf.saves = 0))
  /\ [](outcome \notin Resolved => (pdf.saves = 0 /\ pdf.issued = 0))
  /\ [][C22_Step]_vars

\* an export with action blob has returned a document of several pages
\* and saved nothing
C22_Witness ==
  /\ pc = "Done"
  /\ action = "blob"
  /\ outcome = "resolved_blob"
  /\ pdf.saves = 0
  /\ pdf.pages >= 2
  /\ pdf.issued = pdf.pages

IsContent(it) == it.kind \in {"raster", "marker"}
ContentOf(doc) == SelectSeq(doc.items, IsContent)
\* the blocks of a document in the order they were written
SectionsPlaced(doc) ==
  [k \in 1..Len(ContentOf(doc)) |->
     <<ContentOf(doc)[k].sec, ContentOf(doc)[k].part>>]
\* how the capture of each block ended: with a raster or with a marker
CaptureKinds(doc) ==
  [k \in 1..Len(ContentOf(doc)) |-> ContentOf(doc)[k].kind]
\* the second of two calls with action blob has returned
SecondDone ==
  pc = "Done" /\ outcome = "resolved_blob" /\ firstDoc # NoDoc

C24_PagesPerSection ==
  (/\ pc = "Done" /\ N = 3 /\ outcome \in Resolved
   /\ \A s \in 0..(N - 1) : ~EmptySection(s)
   /\ ~HasMarker) =>
    pdf.pages >= 3

\* C25: the callback decides nothing. Whatever the callback does, a call on
\* a container that is found and has a section ends resolved, as it does
\* with a callback that returns, and no call is rejected because of its
\* callback.
C25_SinkObservesOnly ==
  /\ outcome # "rejected_sink"
  /\ (pc = "Done" /\ containerFound /\ N >= 1) => outcome \in Resolved

\* C26: the marker of every failed block, text or diagram, carries the
\* number of its section counted from 1, so that the markers of two
\* different blocks differ.
C26_MarkerNamesBlock ==
  /\ \A k \in 1..Len(Items) :
       Items[k].kind = "marker" =>
         (Len(Items[k].text) = 2 /\ Items[k].text[2] = Items[k].sec + 1)
  /\ \A j \in 1..Len(Items) : \A k \in 1..Len(Items) :
       (j # k /\ Items[j].kind = "marker" /\ Items[k].kind = "marker") =>
         Items[j].text # Items[k].text

\* C27: at most one html2canvas operation is running at any time.
C27_OneRasterization == running <= 1

C28_Step ==
  /\ (running' < running /\ pc # "Capture") =>
       UNCHANGED <<pdf, currentY, pageNumber, pc, idx, part, rung, reported,
                   outcome>>
  /\ (running' < running /\ pc = "Capture" /\ pc' = "Capture"
        /\ idx' = idx /\ part' = part) =>
       UNCHANGED <<pdf, currentY, pageNumber, rung, reported, outcome>>
  /\ Len(pdf'.items) >= Len(Items)
  /\ SubSeq(pdf'.items, 1, Len(Items)) = Items
  /\ (Len(pdf'.items) > Len(Items) /\ NewItem.kind = "raster") =>
       /\ pc = "Capture"
       /\ NewItem.sec = idx /\ NewItem.part = part
       /\ NewItem.h = ImgHeight(Canvas(Block, rung))
       /\ ItemsOf(idx, part) = {}

\* C28: a rasterization that settles after its rung timed out changes
\* nothing but the count of running operations, wherever the export is at
\* that moment; the items of the document are never replaced or removed; a
\* raster is added only by the step in which the rasterization of the
\* rung in progress resolves, for the block being captured, from the
\* canvas of that rung, and only when the block has no item yet.
C28_LateRasterDropped ==
  /\ [](\A s \in 0..(N - 1) : \A p \in {"text", "map"} :
          Cardinality(ItemsOf(s, p)) <= 1)
  /\ [][C28_Step]_vars

\* the raster of a block was placed and the rasterization of an earlier
\* rung of the export, abandoned at its timeout, is still running
C28_Witness ==
  /\ pc \in {"YieldBlock", "YieldFinal", "Done"}
  /\ running >= 1
  /\ Len(Items) >= 1
  /\ Items[1].kind = "raster"

C29_Step ==
  (terminations' # terminations \/ worker' # worker) =>
    \/ pc = "Start" /\ worker = "none" /\ worker' = "alive"
         /\ terminations' = terminations
    \/ /\ pc # "Done" /\ pc' = "Done"
       /\ worker' = "terminated"
       /\ terminations' = terminations + 1

\* C29: the timer worker. Without a container no worker is ever created;
\* with one, the worker is alive at every await of the call, is
\* terminated exactly when the call has ended, however it ended
\* (resolved in either mode, rejected for a container without sections,
\* rejected by an exception of the callback), and terminate was called
\* once, in the step that ends the call.
C29_WorkerTerminated ==
  /\ [](~containerFound => (worker = "none" /\ terminations = 0))
  /\ [](pc \notin {"Start", "Done"} => worker = "alive")
  /\ []((pc = "Done" /\ containerFound) => worker = "terminated")
  /\ [](terminations = IF worker = "terminated" THEN 1 ELSE 0)
  /\ [][C29_Step]_vars

\* a call that was rejected by an exception of its callback has terminated
\* its worker once
C29_Witness ==
  /\ pc = "Done"
  /\ outcome = "rejected_sink"
  /\ worker = "terminated"
  /\ terminations = 1

\* C30: every page of a finished document over sections that each have a
\* block holds at least one raster, marker or rule.
C30_NoBlankPage ==
  (/\ pc = "Done" /\ outcome \in Resolved
   /\ \A s \in 0..(N - 1) : ~EmptySection(s)) =>
    \A pg \in 1..pdf.pages : \E k \in 1..Len(Items) : Items[k].page = pg

\* C9: every invocation eventually ends, either resolved after reporting
\* 100 or rejected.
C9_Terminates ==
  <>(/\ pc = "Done"
     /\ \/ outcome \in Resolved /\ reported[Len(reported)] = 100
        \/ outcome \in Rejected)

====
